---- MODULE Spec2Model ----
\* Verification model of the nullifier tracker (crates/store/src/nullifier_tree.rs)
\* and of the block producer's store client (crates/block-producer/src/store/mod.rs).
EXTENDS Integers, Sequences, FiniteSets, TLC

\* ---------------------------------------------------------------------------
\* Bounds
\* ---------------------------------------------------------------------------

\* Depth of the sparse Merkle tree in the model (SMT_DEPTH is 64 in the build).
TreeDepth == 2

\* Nullifiers of the model: keys 1..NumNullifiers, each in its own leaf.
NumNullifiers == 2

\* Largest BlockNumber of the model (u32::MAX in the build).
MaxBlockNum == 2

\* Longest list of (nullifier, block number) pairs handed to with_entries and
\* compute_mutations.
MaxPairs == 2

\* Number of compute_mutations calls in one behaviour.
MaxDiffs == 2

\* Accounts of the model: ids 1..NumAccounts.
NumAccounts == 2

\* Notes of the model: ids 1..NumNotes.
NumNotes == 2

\* Largest number of list items (nullifier records and missing notes together)
\* in a GetTransactionInputsResponse.
MaxItems == 2

\* ---------------------------------------------------------------------------
\* Values
\* ---------------------------------------------------------------------------

Nullifiers == 1 .. NumNullifiers

BlockNumbers == 0 .. MaxBlockNum

\* Option<T>: None is the empty sequence, Some(x) the one-element sequence.
None == << >>

Some(x) == << x >>

RECURSIVE Pow2(_)
Pow2(n) == IF n = 0 THEN 1 ELSE 2 * Pow2(n - 1)

\* LeafIndex<SMT_DEPTH>: the leaves of the tree.
LeafIndices == 0 .. (Pow2(TreeDepth) - 1)

\* Sequences over S of length 0..n.
SeqsUpTo(S, n) == UNION { [1 .. k -> S] : k \in 0 .. n }

\* The lists of pairs the callers pass.
KvPairs == SeqsUpTo(Nullifiers \X BlockNumbers, MaxPairs)

\* Nullifier::inner(): the key of the nullifier in the tree.
inner(nullifier) == nullifier

\* Felt::from(u32): a block number always is a canonical field element.
Felt_from(block) == block

\* Smt::EMPTY_VALUE, the all-zero word.
EMPTY_VALUE == << 0, 0, 0, 0 >>

\* block_num_to_leaf_value that writes the block number to the second element.
block_num_to_leaf_value_second(block) == << 0, Felt_from(block), 0, 0 >>

\* block_num_to_leaf_value that writes the number of the next block.
block_num_to_leaf_value_next(block) == << Felt_from(block) + 1, 0, 0, 0 >>

\* NullifierTree::block_num_to_leaf_value
block_num_to_leaf_value(block) == << Felt_from(block), 0, 0, 0 >>

\* leaf_value_to_block_num that reads the second element of the word.
leaf_value_to_block_num_second(value) ==
    IF value[2] \in BlockNumbers THEN value[2] ELSE -1

\* NullifierTree::leaf_value_to_block_num; -1 stands for the panic of expect().
leaf_value_to_block_num(value) ==
    IF value[1] \in BlockNumbers THEN value[1] ELSE -1

\* ---------------------------------------------------------------------------
\* Smt: the sparse Merkle tree the tracker wraps.  A tree is a record
\* [root, leaves]; leaves maps every leaf index to its word, EMPTY_VALUE when
\* the leaf is not stored.  Digests are terms: the hash of a leaf is the pair
\* (key, word), the hash of an inner node the pair of its children's hashes,
\* so two digests are equal exactly when they were computed from equal data.
\* ---------------------------------------------------------------------------

\* Hash of a leaf; every empty leaf has the same hash.
LeafHash(key, value) ==
    IF value = EMPTY_VALUE THEN << 0, EMPTY_VALUE >> ELSE << key, value >>

\* Rpo256::merge of two child digests.
Merge(left, right) == << left, right >>

\* Hash of the node at the given depth and index over the given leaves.
RECURSIVE NodeHash(_, _, _)
NodeHash(leaves, depth, index) ==
    IF depth = TreeDepth
    THEN LeafHash(index, leaves[index])
    ELSE Merge(NodeHash(leaves, depth + 1, 2 * index),
               NodeHash(leaves, depth + 1, 2 * index + 1))

\* Root digest of a tree with the given leaves.
ComputeRoot(leaves) == NodeHash(leaves, 0, 0)

\* Smt::new: the empty tree.
Smt_new ==
    LET leaves == [i \in LeafIndices |-> EMPTY_VALUE]
    IN  [root |-> ComputeRoot(leaves), leaves |-> leaves]

\* Smt::root
Smt_root(smt) == smt.root

\* Smt::get_value
Smt_get_value(smt, key) == smt.leaves[key]

\* Smt::insert: stores the value and recomputes the path to the root.
Smt_insert(smt, key, value) ==
    LET leaves == [smt.leaves EXCEPT ![key] = value]
    IN  [root |-> ComputeRoot(leaves), leaves |-> leaves]

\* Smt::with_entries: inserts the entries in order and fails on the first key
\* that was given before (also when it was given with the empty value).
RECURSIVE Smt_with_entries_loop(_, _, _)
Smt_with_entries_loop(tree, seen, entries) ==
    IF entries = << >>
    THEN [ok |-> TRUE, smt |-> tree]
    ELSE LET key   == entries[1][1]
             value == entries[1][2]
         IN  IF key \in seen
             THEN [ok |-> FALSE, smt |-> Smt_new]
             ELSE Smt_with_entries_loop(Smt_insert(tree, key, value),
                                        seen \cup {key}, Tail(entries))

Smt_with_entries(entries) == Smt_with_entries_loop(Smt_new, {}, entries)

\* The new_pairs map of Smt::compute_mutations: a pair equal to the effective
\* old value of its key is skipped, a later pair for a key replaces an earlier.
RECURSIVE Smt_new_pairs(_, _, _)
Smt_new_pairs(smt, kv_pairs, acc) ==
    IF kv_pairs = << >>
    THEN acc
    ELSE LET key       == kv_pairs[1][1]
             value     == kv_pairs[1][2]
             old_value == IF key \in DOMAIN acc
                          THEN acc[key] ELSE Smt_get_value(smt, key)
         IN  Smt_new_pairs(smt, Tail(kv_pairs),
                 IF value = old_value
                 THEN acc
                 ELSE [k \in (DOMAIN acc) \cup {key} |->
                          IF k = key THEN value ELSE acc[k]])

\* The leaves of the tree once new_pairs are stored.
WithPairs(leaves, new_pairs) ==
    [i \in LeafIndices |->
        IF i \in DOMAIN new_pairs THEN new_pairs[i] ELSE leaves[i]]

\* Smt::compute_mutations: the MutationSet for the pairs; self is not changed.
Smt_compute_mutations(smt, kv_pairs) ==
    LET new_pairs == Smt_new_pairs(smt, kv_pairs, << >>)
    IN  [old_root  |-> Smt_root(smt),
         new_root  |-> ComputeRoot(WithPairs(smt.leaves, new_pairs)),
         new_pairs |-> new_pairs]

\* Smt::apply_mutations: refuses a set whose old_root is not the current root,
\* otherwise stores the new pairs and sets the root to the set's new_root.
Smt_apply_mutations(smt, mutations) ==
    IF mutations.old_root # Smt_root(smt)
    THEN [ok |-> FALSE, smt |-> smt]
    ELSE [ok |-> TRUE,
          smt |-> [root   |-> mutations.new_root,
                   leaves |-> WithPairs(smt.leaves, mutations.new_pairs)]]

\* Siblings of the path from the leaf of key up to the root.
RECURSIVE MerklePath(_, _, _)
MerklePath(leaves, depth, index) ==
    IF depth = 0
    THEN << >>
    ELSE LET sibling == IF index % 2 = 0 THEN index + 1 ELSE index - 1
         IN  << NodeHash(leaves, depth, sibling) >>
                 \o MerklePath(leaves, depth - 1, index \div 2)

\* Smt::open: the leaf of the key and its Merkle path.
Smt_open(smt, key) ==
    [path  |-> MerklePath(smt.leaves, TreeDepth, key),
     key   |-> key,
     value |-> Smt_get_value(smt, key)]

\* The root computed from a node up a Merkle path: at each level the node is
\* merged with its sibling, on the side the index tells.
RECURSIVE MerklePath_compute_root(_, _, _)
MerklePath_compute_root(path, index, node) ==
    IF path = << >>
    THEN node
    ELSE MerklePath_compute_root(Tail(path), index \div 2,
             IF index % 2 = 0
             THEN Merge(node, Head(path))
             ELSE Merge(Head(path), node))

\* SmtProof::verify_membership: the proof is of the key with the value, and
\* its path leads from the hash of its leaf to the root.
verify_membership(proof, key, value, expected) ==
    /\ proof.key = key
    /\ proof.value = value
    /\ MerklePath_compute_root(proof.path, proof.key,
                               LeafHash(proof.key, proof.value)) = expected

\* ---------------------------------------------------------------------------
\* NullifierTree
\* ---------------------------------------------------------------------------

\* The leaves with_entries hands to Smt::with_entries.
ToLeaves(pairs) ==
    [i \in 1 .. Len(pairs) |->
        << inner(pairs[i][1]), block_num_to_leaf_value(pairs[i][2]) >>]

\* with_entries that loses the last entry of the list.
with_entries_short(entries) ==
    Smt_with_entries(ToLeaves(SubSeq(entries, 1, Len(entries) - 1)))

\* NullifierTree::with_entries
with_entries(entries) == Smt_with_entries(ToLeaves(entries))

\* NullifierTree::root
root(self) == Smt_root(self)

\* open that returns the leaf with the Merkle path of the empty tree.
open_unkeyed(self, nullifier) ==
    [Smt_open(self, inner(nullifier))
        EXCEPT !.path = MerklePath(Smt_new.leaves, TreeDepth, inner(nullifier))]

\* NullifierTree::open
open(self, nullifier) == Smt_open(self, inner(nullifier))

\* NullifierTree::get_block_num
get_block_num(self, nullifier) ==
    LET value == Smt_get_value(self, inner(nullifier))
    IN  IF value = EMPTY_VALUE
        THEN None
        ELSE Some(leaf_value_to_block_num(value))

\* NullifierTree::compute_mutations
compute_mutations(self, kv_pairs) ==
    Smt_compute_mutations(self, ToLeaves(kv_pairs))

\* apply_mutations that stores the set without comparing its old root.
apply_mutations_unchecked(self, mutations) ==
    [ok  |-> TRUE,
     smt |-> [root   |-> mutations.new_root,
              leaves |-> WithPairs(self.leaves, mutations.new_pairs)]]

\* apply_mutations that stores the new pairs but keeps the old root.
apply_mutations_keeps_root(self, mutations) ==
    IF mutations.old_root # Smt_root(self)
    THEN [ok |-> FALSE, smt |-> self]
    ELSE [ok |-> TRUE,
          smt |-> [root   |-> self.root,
                   leaves |-> WithPairs(self.leaves, mutations.new_pairs)]]

\* apply_mutations that stores the new pairs before it compares the roots.
apply_mutations_partial(self, mutations) ==
    LET stored == [root   |-> self.root,
                   leaves |-> WithPairs(self.leaves, mutations.new_pairs)]
    IN  IF mutations.old_root # Smt_root(self)
        THEN [ok |-> FALSE, smt |-> stored]
        ELSE [ok |-> TRUE, smt |-> [stored EXCEPT !.root = mutations.new_root]]

\* NullifierTree::apply_mutations
apply_mutations(self, mutations) == Smt_apply_mutations(self, mutations)

\* ---------------------------------------------------------------------------
\* Block producer: TransactionInputs and the conversion of the store's
\* GetTransactionInputsResponse
\* ---------------------------------------------------------------------------

AccountIds == 1 .. NumAccounts

NoteIds == 1 .. NumNotes

\* A digest or account id on the wire that does not decode (an element that
\* is not in the range of the field).
Undecodable == 0 - 1

\* The messages a failed remote call carries (tonic::Status::message).
StatusMessages == {"unavailable", "deadline exceeded"}

\* ProvenTransaction, as far as get_tx_inputs reads it.
ProvenTransactions ==
    [account_id            : AccountIds,
     nullifiers            : SUBSET Nullifiers,
     unauthenticated_notes : SUBSET NoteIds]

\* AccountTransactionInputRecord on the wire; account_hash 0 is the default
\* digest.
WireAccountStates ==
    [account_id : AccountIds \cup {Undecodable}, account_hash : 0 .. 1]

\* NullifierTransactionInputRecord on the wire; the block_num of a record
\* whose nullifier is missing or does not decode is never read.
WireNullifierRecords ==
    [nullifier : { Some(x) : x \in Nullifiers }, block_num : BlockNumbers]
        \cup
    [nullifier : {None, Some(Undecodable)}, block_num : {0}]

\* GetTransactionInputsResponse on the wire.
GetTransactionInputsResponses ==
    UNION {
        [account_state : {None} \cup { Some(a) : a \in WireAccountStates },
         nullifiers    : SeqsUpTo(WireNullifierRecords, MaxItems - k),
         missing_unauthenticated_notes :
             [1 .. k -> NoteIds \cup {Undecodable}],
         block_height  : {0, MaxBlockNum}] : k \in 0 .. MaxItems }

\* A response with nothing in it.
NoResponse ==
    [account_state |-> None, nullifiers |-> << >>,
     missing_unauthenticated_notes |-> << >>, block_height |-> 0]

\* What the remote call returns: a tonic::Status or a response.
Replies ==
    [status : {"Err"}, message : StatusMessages, response : {NoResponse}]
        \cup
    [status : {"Ok"}, message : {""}, response : GetTransactionInputsResponses]

\* No ConversionError.
NoError == [variant |-> "", entity |-> "", field_name |-> ""]

\* MissingFieldHelper::missing_field for the message type T.
missing_field(T, field_name) ==
    [variant    |-> "MissingFieldInProtobufRepresentation",
     entity     |-> T,
     field_name |-> field_name]

\* ConversionError::NotAValidFelt, the failure of a digest conversion.
NotAValidFelt == [variant |-> "NotAValidFelt", entity |-> "", field_name |-> ""]

\* NonZeroU32::new that wraps every number, zero too.
NonZeroU32_new_any(n) == Some(n)

\* NonZeroU32::new
NonZeroU32_new(n) == IF n = 0 THEN None ELSE Some(n)

\* BTreeMap::insert that keeps the value of a key already in the map.
BTreeMap_insert_keeping(map, key, value) ==
    [k \in (DOMAIN map) \cup {key} |->
        IF k \in DOMAIN map THEN map[k] ELSE value]

\* BTreeMap::insert
BTreeMap_insert(map, key, value) ==
    [k \in (DOMAIN map) \cup {key} |-> IF k = key THEN value ELSE map[k]]

\* TryFrom<AccountTransactionInputRecord> for AccountState
AccountState_try_from(record) ==
    IF record.account_id = Undecodable
    THEN [ok |-> FALSE, err |-> NotAValidFelt,
          account_id |-> 0, account_hash |-> None]
    ELSE [ok |-> TRUE, err |-> NoError,
          account_id   |-> record.account_id,
          account_hash |-> IF record.account_hash = 0
                           THEN None ELSE Some(record.account_hash)]

\* The loop over response.nullifiers: the map after the records, or the error
\* of the first record that does not decode.
RECURSIVE InsertRecords(_, _)
InsertRecords(records, nullifiers) ==
    IF records = << >>
    THEN [ok |-> TRUE, err |-> NoError, nullifiers |-> nullifiers]
    ELSE LET nullifier_record == records[1]
         IN  IF nullifier_record.nullifier = None
             THEN [ok |-> FALSE,
                   err |-> missing_field("NullifierTransactionInputRecord",
                                         "nullifier"),
                   nullifiers |-> << >>]
             ELSE IF nullifier_record.nullifier[1] = Undecodable
             THEN [ok |-> FALSE, err |-> NotAValidFelt, nullifiers |-> << >>]
             ELSE InsertRecords(Tail(records),
                      BTreeMap_insert(nullifiers,
                          nullifier_record.nullifier[1],
                          NonZeroU32_new(nullifier_record.block_num)))

\* The conversion of response.missing_unauthenticated_notes that collects the
\* note ids in reverse.
ConvertNotes_reversed(digests) ==
    IF \E i \in DOMAIN digests : digests[i] = Undecodable
    THEN [ok |-> FALSE, err |-> NotAValidFelt, notes |-> << >>]
    ELSE [ok |-> TRUE, err |-> NoError,
          notes |-> [i \in DOMAIN digests |->
                        digests[Len(digests) + 1 - i]]]

\* The conversion of response.missing_unauthenticated_notes: the list of note
\* ids, or the error of the first digest that does not decode.
ConvertNotes(digests) ==
    IF \E i \in DOMAIN digests : digests[i] = Undecodable
    THEN [ok |-> FALSE, err |-> NotAValidFelt, notes |-> << >>]
    ELSE [ok |-> TRUE, err |-> NoError,
          notes |-> [i \in DOMAIN digests |-> digests[i]]]

\* A TransactionInputs with nothing in it.
NoTransactionInputs ==
    [account_id |-> 0, account_hash |-> None, nullifiers |-> << >>,
     missing_unauthenticated_notes |-> << >>, current_block_height |-> 0]

\* The failure of a conversion.
ConversionFailed(err) ==
    [ok |-> FALSE, err |-> err, tx_inputs |-> NoTransactionInputs]

\* TryFrom<GetTransactionInputsResponse> for TransactionInputs
TransactionInputs_try_from(response) ==
    IF response.account_state = None
    THEN ConversionFailed(missing_field("GetTransactionInputsResponse",
                                        "account_state"))
    ELSE
    LET state   == AccountState_try_from(response.account_state[1])
        records == InsertRecords(response.nullifiers, << >>)
        notes   == ConvertNotes(response.missing_unauthenticated_notes)
    IN  IF ~state.ok THEN ConversionFailed(state.err)
        ELSE IF ~records.ok THEN ConversionFailed(records.err)
        ELSE IF ~notes.ok THEN ConversionFailed(notes.err)
        ELSE [ok  |-> TRUE,
              err |-> NoError,
              tx_inputs |->
                  [account_id   |-> state.account_id,
                   account_hash |-> state.account_hash,
                   nullifiers   |-> records.nullifiers,
                   missing_unauthenticated_notes |-> notes.notes,
                   current_block_height |-> response.block_height]]

\* What an operation of the store client returns: Ok with a value, or Err
\* with an error of the operation's error type and of the given kind.
Returned(ok, error, kind, message, err, tx_inputs) ==
    [ok |-> ok, error |-> error, kind |-> kind, message |-> message,
     err |-> err, tx_inputs |-> tx_inputs, value |-> ""]

\* Nothing returned yet.
NoResult == Returned(FALSE, "", "", "", NoError, NoTransactionInputs)

\* The GetTransactionInputsRequest get_tx_inputs builds.
GetTransactionInputsRequest(proven_tx) ==
    [account_id            |-> Some(proven_tx.account_id),
     nullifiers            |-> proven_tx.nullifiers,
     unauthenticated_notes |-> proven_tx.unauthenticated_notes]

\* get_tx_inputs that returns the inputs without comparing the account ids.
get_tx_inputs_unchecked(proven_tx, reply) ==
    IF reply.status = "Err"
    THEN Returned(FALSE, "TxInputsError", "GrpcClientError", reply.message,
                  NoError,
                  NoTransactionInputs)
    ELSE LET converted == TransactionInputs_try_from(reply.response)
         IN  IF ~converted.ok
             THEN Returned(FALSE, "TxInputsError", "ConversionError", "",
                           converted.err, NoTransactionInputs)
             ELSE Returned(TRUE, "", "", "", NoError, converted.tx_inputs)

\* DefaultStore::get_tx_inputs from the reply of the remote call on.
get_tx_inputs(proven_tx, reply) ==
    IF reply.status = "Err"
    THEN Returned(FALSE, "TxInputsError", "GrpcClientError", reply.message,
                  NoError,
                  NoTransactionInputs)
    ELSE LET converted == TransactionInputs_try_from(reply.response)
         IN  IF ~converted.ok
             THEN Returned(FALSE, "TxInputsError", "ConversionError", "",
                           converted.err, NoTransactionInputs)
             ELSE IF converted.tx_inputs.account_id # proven_tx.account_id
             THEN Returned(FALSE, "TxInputsError", "MalformedResponse",
                           "incorrect account id returned from store",
                           NoError, NoTransactionInputs)
             ELSE Returned(TRUE, "", "", "", NoError, converted.tx_inputs)

\* What the three other operations return: Ok with a value of the named
\* type, or Err with an error of the operation's error type.
ReturnedValue(value) ==
    [Returned(TRUE, "", "", "", NoError, NoTransactionInputs)
        EXCEPT !.value = value]

\* The failure of a remote call that drops the message of the status.
GrpcClientError_silent(error, status) ==
    Returned(FALSE, error, "GrpcClientError", "", NoError,
             NoTransactionInputs)

\* The failure of a remote call, as the error type of the operation.
GrpcClientError(error, status) ==
    Returned(FALSE, error, "GrpcClientError", status.message, NoError,
             NoTransactionInputs)

\* The blocks the producer submits, by their number.
Blocks == BlockNumbers \ {0}

\* Block::to_bytes
to_bytes(block) == << block >>

\* What the remote apply_block call returns: a tonic::Status or the empty
\* ApplyBlockResponse.
ApplyBlockReplies ==
    [status : {"Err"}, message : StatusMessages, response : {[empty |-> TRUE]}]
        \cup
    [status : {"Ok"}, message : {""}, response : {[empty |-> TRUE]}]

\* DefaultStore::apply_block from the reply of the remote call on.
apply_block(block, reply) ==
    IF reply.status = "Err"
    THEN GrpcClientError("ApplyBlockError", reply)
    ELSE ReturnedValue("()")

\* What the remote get_block_inputs call returns; the response either
\* converts to BlockInputs or does not.
GetBlockInputsReplies ==
    [status : {"Err"}, message : StatusMessages,
     response : {[decodes |-> FALSE]}]
        \cup
    [status : {"Ok"}, message : {""}, response : [decodes : BOOLEAN]]

\* TryFrom<GetBlockInputsResponse> for BlockInputs
BlockInputs_try_from(response) ==
    IF response.decodes
    THEN [ok |-> TRUE, err |-> NoError]
    ELSE [ok |-> FALSE, err |-> NotAValidFelt]

\* DefaultStore::get_block_inputs from the reply of the remote call on.
get_block_inputs(request, reply) ==
    IF reply.status = "Err"
    THEN GrpcClientError("BlockInputsError", reply)
    ELSE LET converted == BlockInputs_try_from(reply.response)
         IN  IF ~converted.ok
             THEN Returned(FALSE, "BlockInputsError", "ConversionError", "",
                           converted.err, NoTransactionInputs)
             ELSE ReturnedValue("BlockInputs")

\* What the remote get_note_authentication_info call returns; the proofs
\* field is missing, or present and convertible or not.
GetNoteAuthenticationInfoReplies ==
    [status : {"Err"}, message : StatusMessages, response : {[proofs |-> None]}]
        \cup
    [status : {"Ok"}, message : {""},
     response : [proofs : {None} \cup
                     { Some(x) : x \in [decodes  : BOOLEAN,
                                       note_ids : SUBSET NoteIds] }]]

\* TryFrom of the proofs field for NoteAuthenticationInfo
NoteAuthenticationInfo_try_from(proofs) ==
    IF proofs.decodes
    THEN [ok |-> TRUE, err |-> NoError]
    ELSE [ok |-> FALSE, err |-> NotAValidFelt]

\* DefaultStore::get_note_authentication_info from the reply of the remote
\* call on.
get_note_authentication_info(request, reply) ==
    IF reply.status = "Err"
    THEN GrpcClientError("NotePathsError", reply)
    ELSE IF reply.response.proofs = None
    THEN Returned(FALSE, "NotePathsError", "ConversionError", "",
                  missing_field("GetTransactionInputsResponse", "proofs"),
                  NoTransactionInputs)
    ELSE LET converted ==
                 NoteAuthenticationInfo_try_from(reply.response.proofs[1])
         IN  IF ~converted.ok
             THEN Returned(FALSE, "NotePathsError", "ConversionError", "",
                           converted.err, NoTransactionInputs)
             ELSE ReturnedValue("NoteAuthenticationInfo")

\* ---------------------------------------------------------------------------
\* State of the store's tracker and of the callers that hold diffs
\* ---------------------------------------------------------------------------

VARIABLES
    entries,      \* the pairs with_entries was called with
    constructed,  \* whether with_entries returned Ok
    tracker,      \* the NullifierTree (its Smt)
    diffs,        \* the MutationSets computed and still held by a caller
    computed,     \* number of compute_mutations calls so far
    last,         \* the last call on the tracker and what it returned
    call,         \* the store client operation in progress
    reply,        \* what the remote call of the operation returned
    result        \* what the operation returned to its caller

trackerVars == << entries, constructed, tracker, diffs, computed, last >>

clientVars == << call, reply, result >>

vars == << trackerVars, clientVars >>

\* The MutationSet of a call record that is about none.
NoMutations == compute_mutations(Smt_new, << >>)

\* A call record with nothing in it.
NoCall ==
    [op |-> "none", ok |-> TRUE, nullifier |-> 0, mutations |-> NoMutations,
     root |-> Smt_new.root, block |-> None, before |-> FALSE]

\* No remote call has returned.
NoReply == [status |-> "", message |-> "", response |-> NoResponse]

\* A ProvenTransaction of no call.
NoTransaction ==
    [account_id |-> 0, nullifiers |-> {}, unauthenticated_notes |-> {}]

\* The request of no call.
NoRequest ==
    [account_id |-> None, nullifiers |-> {}, unauthenticated_notes |-> {}]

\* The block producer has no store client operation in progress.
Idle ==
    [op |-> "", pc |-> "idle", proven_tx |-> NoTransaction,
     request |-> NoRequest, rpcs |-> 0]

\* The state once with_entries(pairs) has returned.
Built(pairs) ==
    /\ entries = pairs
    /\ constructed = with_entries(pairs).ok
    /\ tracker = with_entries(pairs).smt
    /\ diffs = {}
    /\ computed = 0
    /\ last = [NoCall EXCEPT !.op = "with_entries",
                             !.ok = with_entries(pairs).ok]
    /\ call = Idle
    /\ reply = NoReply
    /\ result = NoResult

\* The store starts at genesis, where no nullifier exists.
Init == Built(<< >>)

\* The store restarts from any stored list of pairs.
BuildInit == \E pairs \in KvPairs : Built(pairs)

\* root(&self)
Root ==
    /\ constructed
    /\ last' = [NoCall EXCEPT !.op = "root", !.root = root(tracker)]
    /\ UNCHANGED << entries, constructed, tracker, diffs, computed, clientVars >>

\* open(&self, nullifier)
Open ==
    /\ constructed
    /\ \E n \in Nullifiers :
          last' = [NoCall EXCEPT !.op = "open", !.nullifier = n,
                                 !.ok = (open(tracker, n).key = n)]
    /\ UNCHANGED << entries, constructed, tracker, diffs, computed, clientVars >>

\* get_block_num(&self, nullifier)
GetBlockNum ==
    /\ constructed
    /\ \E n \in Nullifiers :
          last' = [NoCall EXCEPT !.op = "get_block_num", !.nullifier = n,
                                 !.block = get_block_num(tracker, n)]
    /\ UNCHANGED << entries, constructed, tracker, diffs, computed, clientVars >>

\* The entry of diffs for a MutationSet: the set, the tracker it was computed
\* from and whether an apply_mutations of it has succeeded.
Held(mutations, base, applied) ==
    [mutations |-> mutations, base |-> base, applied |-> applied]

\* compute_mutations that stores the pairs in the tracker while computing.
ComputeMutations_storing ==
    /\ constructed
    /\ computed < MaxDiffs
    /\ \E kv_pairs \in KvPairs :
          LET mutations == compute_mutations(tracker, kv_pairs)
          IN  /\ diffs' = IF \E d \in diffs : d.mutations = mutations
                          THEN diffs
                          ELSE diffs \cup {Held(mutations, tracker, FALSE)}
              /\ tracker' = apply_mutations(tracker, mutations).smt
              /\ last' = [NoCall EXCEPT !.op = "compute_mutations",
                                        !.mutations = mutations]
    /\ computed' = computed + 1
    /\ UNCHANGED << entries, constructed, clientVars >>

\* compute_mutations(&self, kv_pairs): the caller keeps the returned set.
ComputeMutations ==
    /\ constructed
    /\ computed < MaxDiffs
    /\ \E kv_pairs \in KvPairs :
          LET mutations == compute_mutations(tracker, kv_pairs)
          IN  /\ diffs' = IF \E d \in diffs : d.mutations = mutations
                          THEN diffs
                          ELSE diffs \cup {Held(mutations, tracker, FALSE)}
              /\ last' = [NoCall EXCEPT !.op = "compute_mutations",
                                        !.mutations = mutations]
    /\ computed' = computed + 1
    /\ UNCHANGED << entries, constructed, tracker, clientVars >>

\* apply_mutations(&mut self, mutations) with a set some caller holds (the
\* caller may have kept a clone of it).
ApplyMutations ==
    /\ constructed
    /\ \E d \in diffs :
          LET applied == apply_mutations(tracker, d.mutations)
          IN  /\ tracker' = applied.smt
              /\ diffs' = (diffs \ {d}) \cup
                     {Held(d.mutations, d.base, d.applied \/ applied.ok)}
              /\ last' = [NoCall EXCEPT !.op = "apply_mutations",
                                        !.ok = applied.ok,
                                        !.mutations = d.mutations,
                                        !.before = d.applied]
    /\ UNCHANGED << entries, constructed, computed, clientVars >>

\* A caller drops a set it holds (a rejected candidate, an abandoned request).
Discard ==
    /\ \E d \in diffs :
          /\ diffs' = diffs \ {d}
          /\ last' = [NoCall EXCEPT !.op = "drop", !.mutations = d.mutations]
    /\ UNCHANGED << entries, constructed, tracker, computed, clientVars >>

Next ==
    \/ Root
    \/ Open
    \/ GetBlockNum
    \/ ComputeMutations
    \/ ApplyMutations
    \/ Discard

Spec == Init /\ [][Next]_vars

\* A restarted store that serves reads.
BuildNext ==
    \/ Root
    \/ Open
    \/ GetBlockNum

BuildSpec == BuildInit /\ [][BuildNext]_vars

\* get_tx_inputs up to its await: the request is built and sent to the store.
GetTxInputs_send ==
    /\ call.pc # "awaiting"
    /\ \E proven_tx \in ProvenTransactions :
          call' = [op |-> "get_tx_inputs", pc |-> "awaiting",
                   proven_tx |-> proven_tx,
                   request |-> GetTransactionInputsRequest(proven_tx),
                   rpcs |-> 1]
    /\ reply' = NoReply
    /\ result' = NoResult
    /\ UNCHANGED trackerVars

\* get_tx_inputs from its await on: the remote call returns and the
\* operation converts and checks the response.
GetTxInputs_receive ==
    /\ call.op = "get_tx_inputs"
    /\ call.pc = "awaiting"
    /\ \E r \in Replies :
          /\ reply' = r
          /\ result' = get_tx_inputs(call.proven_tx, r)
    /\ call' = [call EXCEPT !.pc = "done"]
    /\ UNCHANGED trackerVars

\* apply_block up to its await.
ApplyBlock_send ==
    /\ call.pc # "awaiting"
    /\ \E block \in Blocks :
          call' = [op |-> "apply_block", pc |-> "awaiting",
                   proven_tx |-> NoTransaction,
                   request |-> [block |-> to_bytes(block)],
                   rpcs |-> 1]
    /\ reply' = NoReply
    /\ result' = NoResult
    /\ UNCHANGED trackerVars

\* apply_block from its await on.
ApplyBlock_receive ==
    /\ call.op = "apply_block"
    /\ call.pc = "awaiting"
    /\ \E r \in ApplyBlockReplies :
          /\ reply' = r
          /\ result' = apply_block(call.request, r)
    /\ call' = [call EXCEPT !.pc = "done"]
    /\ UNCHANGED trackerVars

\* get_block_inputs up to its await.
GetBlockInputs_send ==
    /\ call.pc # "awaiting"
    /\ \E updated_accounts \in SUBSET AccountIds,
          produced_nullifiers \in SUBSET Nullifiers,
          notes \in SUBSET NoteIds :
          call' = [op |-> "get_block_inputs", pc |-> "awaiting",
                   proven_tx |-> NoTransaction,
                   request |-> [account_ids |-> updated_accounts,
                                nullifiers  |-> produced_nullifiers,
                                unauthenticated_notes |-> notes],
                   rpcs |-> 1]
    /\ reply' = NoReply
    /\ result' = NoResult
    /\ UNCHANGED trackerVars

\* get_block_inputs that calls the store once more when the response does
\* not convert.
GetBlockInputs_receive_retrying ==
    /\ call.op = "get_block_inputs"
    /\ call.pc = "awaiting"
    /\ \E r \in GetBlockInputsReplies :
          LET returned == get_block_inputs(call.request, r)
              again    == ~returned.ok /\ call.rpcs < 2
          IN  /\ reply' = r
              /\ result' = IF again THEN NoResult ELSE returned
              /\ call' = IF again
                         THEN [call EXCEPT !.rpcs = call.rpcs + 1]
                         ELSE [call EXCEPT !.pc = "done"]
    /\ UNCHANGED trackerVars

\* get_block_inputs from its await on.
GetBlockInputs_receive ==
    /\ call.op = "get_block_inputs"
    /\ call.pc = "awaiting"
    /\ \E r \in GetBlockInputsReplies :
          /\ reply' = r
          /\ result' = get_block_inputs(call.request, r)
    /\ call' = [call EXCEPT !.pc = "done"]
    /\ UNCHANGED trackerVars

\* get_note_authentication_info up to its await.
GetNoteAuthenticationInfo_send ==
    /\ call.pc # "awaiting"
    /\ \E notes \in SUBSET NoteIds :
          call' = [op |-> "get_note_authentication_info", pc |-> "awaiting",
                   proven_tx |-> NoTransaction,
                   request |-> [note_ids |-> notes],
                   rpcs |-> 1]
    /\ reply' = NoReply
    /\ result' = NoResult
    /\ UNCHANGED trackerVars

\* get_note_authentication_info from its await on.
GetNoteAuthenticationInfo_receive ==
    /\ call.op = "get_note_authentication_info"
    /\ call.pc = "awaiting"
    /\ \E r \in GetNoteAuthenticationInfoReplies :
          /\ reply' = r
          /\ result' = get_note_authentication_info(call.request, r)
    /\ call' = [call EXCEPT !.pc = "done"]
    /\ UNCHANGED trackerVars

ClientNext ==
    \/ GetTxInputs_send
    \/ GetTxInputs_receive
    \/ GetBlockInputs_send
    \/ GetBlockInputs_receive
    \/ GetNoteAuthenticationInfo_send
    \/ GetNoteAuthenticationInfo_receive
    \/ ApplyBlock_send
    \/ ApplyBlock_receive

\* The block producer's store client against an arbitrary store.
ClientSpec == Init /\ [][ClientNext]_vars

\* ---------------------------------------------------------------------------
\* Properties of the tracker
\* ---------------------------------------------------------------------------

\* The stored root always is the root of the stored leaves.
RootMatchesLeaves == tracker.root = ComputeRoot(tracker.leaves)

\* The step is an apply_mutations call with the held set d.
Applies(d) ==
    /\ last'.op = "apply_mutations"
    /\ last'.mutations = d.mutations

\* The nullifiers that occur in a list of pairs.
Keys(pairs) == { pairs[i][1] : i \in DOMAIN pairs }

\* C1: an apply_mutations call with a set computed from a tracker state S,
\* made when the tracker's leaves are no longer those of S, returns an error
\* and stores nothing.
C1_StaleDiffRejected ==
    [][\A d \in diffs :
          (Applies(d) /\ d.base.leaves # tracker.leaves)
              => (~last'.ok /\ tracker' = tracker)]_vars

\* C1 witness: two sets were computed from the same state, one was applied,
\* and the apply_mutations call with the other has just failed.
C1_Witness ==
    /\ last.op = "apply_mutations"
    /\ ~last.ok
    /\ \E d \in diffs, e \in diffs :
          /\ d.mutations = last.mutations
          /\ e # d
          /\ e.base = d.base
          /\ e.applied
          /\ ~d.applied
          /\ d.base.leaves # tracker.leaves

\* C2 as stated: no set is ever applied successfully a second time.
C2_Original ==
    ~(last.op = "apply_mutations" /\ last.ok /\ last.before)

\* C2 amended: when a set whose new root differs from its old root has just
\* been applied successfully, the next apply_mutations call with that same
\* set fails; and any call with a set that was applied before fails while the
\* tracker's root is not the set's old root.
C2_SecondApplyFails ==
    [][\A d \in diffs :
          /\ (/\ last.op = "apply_mutations"
               /\ last.ok
               /\ last.mutations = d.mutations
               /\ d.mutations.new_root # d.mutations.old_root
               /\ Applies(d))
                  => ~last'.ok
          /\ (/\ d.applied
               /\ root(tracker) # d.mutations.old_root
               /\ Applies(d))
                  => ~last'.ok]_vars

\* C2 witness: a set that changes the root was applied once, and the second
\* call with it, made in the state the first one produced, has failed.
C2_Witness ==
    /\ last.op = "apply_mutations"
    /\ ~last.ok
    /\ last.before
    /\ last.mutations.new_root # last.mutations.old_root
    /\ root(tracker) = last.mutations.new_root

\* C3: an apply_mutations call with a set computed from state S, made while
\* the tracker still has the leaves of S, succeeds, and afterwards root() is
\* the new root the set declares.
C3_FreshDiffApplies ==
    [][\A d \in diffs :
          (Applies(d) /\ d.base.leaves = tracker.leaves)
              => (last'.ok /\ root(tracker') = d.mutations.new_root)]_vars

\* C3 witness: a set that changes the root has just been applied and the
\* tracker's root is the set's new root.
C3_Witness ==
    /\ last.op = "apply_mutations"
    /\ last.ok
    /\ last.mutations.new_root # last.mutations.old_root
    /\ root(tracker) = last.mutations.new_root
    /\ tracker.leaves # Smt_new.leaves

\* C4: an apply_mutations call that returns an error leaves root() and every
\* get_block_num(n) as they were before the call.
C4_FailedApplyChangesNothing ==
    [][(last'.op = "apply_mutations" /\ ~last'.ok)
          => (/\ root(tracker') = root(tracker)
              /\ \A n \in Nullifiers :
                    get_block_num(tracker', n) = get_block_num(tracker, n)
              /\ tracker' = tracker)]_vars

\* C4 witness: a set that would change a leaf of the current tracker has
\* just been refused.
C4_Witness ==
    /\ last.op = "apply_mutations"
    /\ ~last.ok
    /\ \E k \in DOMAIN last.mutations.new_pairs :
          last.mutations.new_pairs[k] # Smt_get_value(tracker, k)

\* C5: in a tracker built by with_entries from the pairs E, get_block_num(n)
\* is None for every n that is not a key of E and Some(h) for every pair
\* (n, h) of E with h # 0.
C5_BuiltTrackerHoldsEntries ==
    constructed =>
        /\ \A n \in Nullifiers \ Keys(entries) :
              get_block_num(tracker, n) = None
        /\ \A i \in DOMAIN entries :
              entries[i][2] # 0 =>
                  get_block_num(tracker, entries[i][1]) = Some(entries[i][2])

\* C5 witness: a tracker built from one pair with a non-zero height has
\* answered get_block_num for the nullifier of the pair and for the other.
C5_Witness ==
    /\ constructed
    /\ Len(entries) = 1
    /\ entries[1][2] # 0
    /\ last.op = "get_block_num"
    /\ \/ last.nullifier = entries[1][1] /\ last.block = Some(entries[1][2])
       \/ last.nullifier # entries[1][1] /\ last.block = None

\* C6: root() and get_block_num(n) change only in a step that is a successful
\* apply_mutations call; root, open, get_block_num, compute_mutations and the
\* dropping of a set leave the tracker as it is.
C6_OnlyApplyChangesTracker ==
    [][(\/ root(tracker') # root(tracker)
        \/ \E n \in Nullifiers :
              get_block_num(tracker', n) # get_block_num(tracker, n)
        \/ tracker' # tracker)
          => (last'.op = "apply_mutations" /\ last'.ok)]_vars

\* C6 witness: a set that would change the tracker was computed and dropped
\* without being applied, and the tracker still is the genesis tracker.
C6_Witness ==
    /\ last.op = "drop"
    /\ last.mutations.new_root # last.mutations.old_root
    /\ last.mutations.old_root = root(tracker)
    /\ diffs = {}
    /\ tracker = Smt_new

\* The pairs of a list all have a non-zero height.
NonZero(pairs) == \A i \in DOMAIN pairs : pairs[i][2] # 0

\* The pair at position i is the last pair of its nullifier in the list.
IsLast(pairs, i) ==
    \A j \in DOMAIN pairs : pairs[j][1] = pairs[i][1] => j <= i

\* The set changes at least one leaf of the tracker.
ChangesLeaf(self, mutations) ==
    \E k \in DOMAIN mutations.new_pairs :
        mutations.new_pairs[k] # Smt_get_value(self, k)

\* C8 as stated: after the set computed for pairs P (heights non-zero) is
\* applied to the empty tracker, get_block_num(n) = Some(h) for every pair
\* (n, h) of P, the other nullifiers are as before and the root has changed
\* when P changes a leaf.
C8_Original ==
    [][(tracker = Smt_new /\ last'.op = "apply_mutations" /\ last'.ok)
          => \A P \in KvPairs :
                (NonZero(P) /\ compute_mutations(tracker, P) = last'.mutations)
                    => /\ \A i \in DOMAIN P :
                              get_block_num(tracker', P[i][1]) = Some(P[i][2])
                       /\ \A m \in Nullifiers \ Keys(P) :
                              get_block_num(tracker', m)
                                  = get_block_num(tracker, m)
                       /\ ChangesLeaf(tracker, last'.mutations)
                              => root(tracker') # root(tracker)]_vars

\* C8 amended: the same, with get_block_num(n) = Some(h) for every pair
\* (n, h) that is the last pair of n in P.
C8_LastPairWins ==
    [][(tracker = Smt_new /\ last'.op = "apply_mutations" /\ last'.ok)
          => \A P \in KvPairs :
                (NonZero(P) /\ compute_mutations(tracker, P) = last'.mutations)
                    => /\ \A i \in DOMAIN P :
                              IsLast(P, i) =>
                                  get_block_num(tracker', P[i][1])
                                      = Some(P[i][2])
                       /\ \A m \in Nullifiers \ Keys(P) :
                              get_block_num(tracker', m)
                                  = get_block_num(tracker, m)
                       /\ ChangesLeaf(tracker, last'.mutations)
                              => root(tracker') # root(tracker)]_vars

\* C8 witness: the set computed from the empty tracker for one pair with a
\* non-zero height has been applied; the nullifier of the pair has that
\* height, the others are unconsumed and the root is not the empty root.
C8_Witness ==
    /\ last.op = "apply_mutations"
    /\ last.ok
    /\ last.mutations.old_root = Smt_new.root
    /\ \E n \in Nullifiers, h \in BlockNumbers \ {0} :
          /\ last.mutations = compute_mutations(Smt_new, << << n, h >> >>)
          /\ get_block_num(tracker, n) = Some(h)
          /\ \A m \in Nullifiers \ {n} : get_block_num(tracker, m) = None
    /\ root(tracker) # Smt_new.root

C13_LeafValueRoundTrip ==
    /\ \A i \in DOMAIN entries :
          LET h == entries[i][2]
          IN  /\ block_num_to_leaf_value(h) = << h, 0, 0, 0 >>
              /\ leaf_value_to_block_num(block_num_to_leaf_value(h)) = h
    /\ \A n \in Nullifiers :
          Smt_get_value(tracker, inner(n)) = EMPTY_VALUE
              => get_block_num(tracker, n) = None

\* C13 witness: a tracker built from a pair with the largest block number
\* answered get_block_num of that nullifier with the number, while the leaf
\* of another nullifier is the all-zero word.
C13_Witness ==
    /\ constructed
    /\ last.op = "get_block_num"
    /\ last.block = Some(MaxBlockNum)
    /\ \E i \in DOMAIN entries :
          entries[i] = << last.nullifier, MaxBlockNum >>
    /\ \E n \in Nullifiers : Smt_get_value(tracker, inner(n)) = EMPTY_VALUE

\* The leaf value get_block_num tells for a nullifier.
RecordedValue(n) ==
    IF get_block_num(tracker, n) = None
    THEN EMPTY_VALUE
    ELSE block_num_to_leaf_value(get_block_num(tracker, n)[1])

\* C15: in every tracker state and for every nullifier n, the proof open(n)
\* returns verifies against root(): with the recorded leaf value when n is
\* consumed, with the empty value when it is not.
C15_ProofVerifiesAgainstRoot ==
    constructed =>
        \A n \in Nullifiers :
            verify_membership(open(tracker, n), inner(n), RecordedValue(n),
                              root(tracker))

\* C15 witness: open was called for a consumed nullifier while another
\* nullifier is not consumed, after a set was applied.
C15_Witness ==
    /\ last.op = "open"
    /\ get_block_num(tracker, last.nullifier) # None
    /\ \E n \in Nullifiers : get_block_num(tracker, n) = None
    /\ \E d \in diffs : d.applied

\* C18: once get_block_num(n) is Some(h) it stays Some(h) in every later
\* tracker state.
C18_ConsumedStaysConsumed ==
    [][\A n \in Nullifiers :
          get_block_num(tracker, n) # None
              => get_block_num(tracker', n) = get_block_num(tracker, n)]_vars

\* Every leaf of the tree that is not empty is the word of a block number,
\* and get_block_num does not hit the assertion of leaf_value_to_block_num.
LeavesDecode(tree) ==
    \A n \in Nullifiers :
        LET value == Smt_get_value(tree, inner(n))
        IN  /\ value # EMPTY_VALUE =>
                  \E h \in BlockNumbers : value = << h, 0, 0, 0 >>
            /\ get_block_num(tree, n) # Some(-1)

\* C19: in every tracker with_entries builds and in every tracker reached by
\* applying sets that compute_mutations produced, every leaf that is not
\* empty is the word [h, 0, 0, 0] of a block number h, so get_block_num never
\* hits the assertion of leaf_value_to_block_num.
C19_LeavesDecode ==
    /\ LeavesDecode(tracker)
    /\ \A pairs \in KvPairs :
          with_entries(pairs).ok => LeavesDecode(with_entries(pairs).smt)

\* C19 witness: both nullifiers are stored, one at the largest block number,
\* after a set was applied, and get_block_num answered with that number.
C19_Witness ==
    /\ last.op = "get_block_num"
    /\ last.block = Some(MaxBlockNum)
    /\ \A n \in Nullifiers : Smt_get_value(tracker, inner(n)) # EMPTY_VALUE
    /\ \E d \in diffs : d.applied

\* ---------------------------------------------------------------------------
\* Properties of the store client
\* ---------------------------------------------------------------------------

\* get_tx_inputs has returned after the store answered with a response.
TxInputsAnswered ==
    /\ call.op = "get_tx_inputs"
    /\ call.pc = "done"
    /\ reply.status = "Ok"

\* The response embeds an account id that decodes and is not the account id
\* of the proven transaction.
OtherAccount ==
    /\ reply.response.account_state # None
    /\ reply.response.account_state[1].account_id \in AccountIds
    /\ reply.response.account_state[1].account_id # call.proven_tx.account_id

\* Every nullifier record and every note id of the response decodes.
ListsDecode ==
    /\ \A i \in DOMAIN reply.response.nullifiers :
          /\ reply.response.nullifiers[i].nullifier # None
          /\ reply.response.nullifiers[i].nullifier[1] \in Nullifiers
    /\ \A i \in DOMAIN reply.response.missing_unauthenticated_notes :
          reply.response.missing_unauthenticated_notes[i] \in NoteIds

\* C7 as stated: when the account id embedded in the response differs from
\* the account id of the proven transaction, get_tx_inputs returns
\* TxInputsError::MalformedResponse and no TransactionInputs.
C7_Original ==
    (TxInputsAnswered /\ OtherAccount)
        => (~result.ok /\ result.kind = "MalformedResponse")

\* C7 amended: when the embedded account id differs from the account id of
\* the proven transaction, get_tx_inputs returns no TransactionInputs; the
\* error is MalformedResponse when the lists of the response decode, and the
\* conversion error of the first item that does not decode otherwise.
C7_OtherAccountRejected ==
    (TxInputsAnswered /\ OtherAccount)
        => /\ ~result.ok
           /\ result.tx_inputs = NoTransactionInputs
           /\ ListsDecode => result.kind = "MalformedResponse"
           /\ ~ListsDecode => result.kind = "ConversionError"

\* C7 witness: a response that decodes, with a nullifier record, for another
\* account than the transaction's was refused with MalformedResponse.
C7_Witness ==
    /\ TxInputsAnswered
    /\ OtherAccount
    /\ ListsDecode
    /\ reply.response.nullifiers # << >>
    /\ ~result.ok
    /\ result.kind = "MalformedResponse"

\* The record at position i is the last record of its nullifier.
IsLastRecord(records, i) ==
    \A j \in DOMAIN records :
        records[j].nullifier = records[i].nullifier => j <= i

\* C9: in a conversion that succeeds, the map entry written for a nullifier
\* record is None when its block_num is 0 and Some(b) when its block_num is
\* b # 0; the returned map holds that entry for the last record of each
\* nullifier.
C9_ZeroIsNone ==
    (TxInputsAnswered /\ result.ok) =>
        \A i \in DOMAIN reply.response.nullifiers :
            LET records == reply.response.nullifiers
                n       == records[i].nullifier[1]
                b       == records[i].block_num
                decoded == IF b = 0 THEN None ELSE Some(b)
                written == InsertRecords(SubSeq(records, 1, i), << >>)
            IN  /\ written.nullifiers[n] = decoded
                /\ IsLastRecord(records, i)
                       => result.tx_inputs.nullifiers[n] = decoded

\* C9 witness: a response with a record of block_num 0 and a record of
\* another nullifier with a non-zero block_num was converted; the first is
\* None and the second Some in the returned map.
C9_Witness ==
    /\ TxInputsAnswered
    /\ result.ok
    /\ \E i, j \in DOMAIN reply.response.nullifiers :
          LET records == reply.response.nullifiers
          IN  /\ records[i].block_num = 0
              /\ records[j].block_num # 0
              /\ result.tx_inputs.nullifiers[records[i].nullifier[1]] = None
              /\ result.tx_inputs.nullifiers[records[j].nullifier[1]]
                     = Some(records[j].block_num)

\* An operation of the store client has returned.
Answered(op) ==
    /\ call.op = op
    /\ call.pc = "done"

\* C11: when the response of get_note_authentication_info carries no proofs
\* field, the operation fails with the missing-field error that names the
\* GetNoteAuthenticationInfo response as the entity and proofs as the field.
C11_MissingProofsNamesItsResponse ==
    (/\ Answered("get_note_authentication_info")
     /\ reply.status = "Ok"
     /\ reply.response.proofs = None)
        => /\ ~result.ok
           /\ result.err = missing_field("GetNoteAuthenticationInfoResponse",
                                         "proofs")

\* C12: the missing_unauthenticated_notes of the returned TransactionInputs
\* is the list of the response, element for element: same length, same
\* order, duplicates kept.
C12_NotesVerbatim ==
    (TxInputsAnswered /\ result.ok) =>
        LET received == reply.response.missing_unauthenticated_notes
            returned == result.tx_inputs.missing_unauthenticated_notes
        IN  /\ Len(returned) = Len(received)
            /\ \A i \in 1 .. Len(received) : returned[i] = received[i]

\* C12 witness: a response listing two different note ids was converted and
\* the returned list holds them in the order received.
C12_Witness ==
    /\ TxInputsAnswered
    /\ result.ok
    /\ Len(reply.response.missing_unauthenticated_notes) = 2
    /\ reply.response.missing_unauthenticated_notes[1]
           # reply.response.missing_unauthenticated_notes[2]
    /\ result.tx_inputs.missing_unauthenticated_notes
           = reply.response.missing_unauthenticated_notes

\* The error type in the signature of each operation.
ErrorType(op) ==
    CASE op = "get_tx_inputs"                -> "TxInputsError"
      [] op = "get_block_inputs"             -> "BlockInputsError"
      [] op = "get_note_authentication_info" -> "NotePathsError"
      [] op = "apply_block"                  -> "ApplyBlockError"

\* C14: when the remote call fails, the operation returns the GrpcClientError
\* of its own error type with the message of the remote status, and no value.
C14_RemoteFailureSurfaced ==
    (call.pc = "done" /\ reply.status = "Err") =>
        /\ ~result.ok
        /\ result.error = ErrorType(call.op)
        /\ result.kind = "GrpcClientError"
        /\ result.message = reply.message
        /\ result.tx_inputs = NoTransactionInputs
        /\ result.value = ""

\* C14 witness: apply_block returned ApplyBlockError with the message of the
\* status the remote call failed with.
C14_Witness ==
    /\ Answered("apply_block")
    /\ reply.status = "Err"
    /\ reply.message = "deadline exceeded"
    /\ result.error = "ApplyBlockError"
    /\ result.message = "deadline exceeded"

\* C16: whenever get_tx_inputs returns successfully, the nullifiers map of
\* the returned TransactionInputs has a key for every nullifier the proven
\* transaction produces.
C16_EveryProducedNullifierMapped ==
    (TxInputsAnswered /\ result.ok) =>
        \A n \in call.proven_tx.nullifiers :
            n \in DOMAIN result.tx_inputs.nullifiers

\* C17: every invocation of the four operations issues exactly one remote
\* call, also when it returns a transport, conversion or contract error.
C17_OneRemoteCall ==
    /\ call.pc = "awaiting" => call.rpcs = 1
    /\ call.pc = "done" => (call.rpcs = 1 /\ result # NoResult)

\* C17 witness: get_block_inputs returned a conversion error after its one
\* remote call.
C17_Witness ==
    /\ Answered("get_block_inputs")
    /\ ~result.ok
    /\ result.kind = "ConversionError"
    /\ call.rpcs = 1

\* The positions of the records of nullifier n.
RecordsOf(records, n) ==
    { i \in DOMAIN records : records[i].nullifier = Some(n) }

\* The largest of a non-empty set of positions.
LastOf(positions) ==
    CHOOSE i \in positions : \A j \in positions : j <= i

\* C20: when a response holds several records of one nullifier, the returned
\* map holds one entry for it, valued by the block_num of the last of them:
\* None when that is 0, Some of it otherwise.
C20_LastRecordWins ==
    (TxInputsAnswered /\ result.ok) =>
        LET records == reply.response.nullifiers
            map     == result.tx_inputs.nullifiers
        IN  /\ DOMAIN map = { n \in Nullifiers : RecordsOf(records, n) # {} }
            /\ \A n \in DOMAIN map :
                  LET b == records[LastOf(RecordsOf(records, n))].block_num
                  IN  map[n] = IF b = 0 THEN None ELSE Some(b)

\* C20 witness: a response with a record of a nullifier at a height followed
\* by a record of the same nullifier with block_num 0 was converted; the map
\* holds None for it.
C20_Witness ==
    /\ TxInputsAnswered
    /\ result.ok
    /\ Len(reply.response.nullifiers) = 2
    /\ reply.response.nullifiers[1].nullifier
           = reply.response.nullifiers[2].nullifier
    /\ reply.response.nullifiers[1].block_num # 0
    /\ reply.response.nullifiers[2].block_num = 0
    /\ result.tx_inputs.nullifiers[reply.response.nullifiers[2].nullifier[1]]
           = None

====
